---------------------------- MODULE Spec2Model ----------------------------
(***************************************************************************)
(* Model of the string pool of apkparser (stringtable.go): construction    *)
(* of a stringTable from a size-bounded reader (parseStringTable), the two *)
(* string decoders (parseString8, parseString16) with their length codecs, *)
(* the lazy cached lookup (get) and isEmpty.                               *)
(*                                                                         *)
(* Bytes are integers 0..255, byte slices and Go strings are sequences of  *)
(* bytes, a Go map is a function whose DOMAIN is the set of keys present.  *)
(* A uint32 is the record [hi, lo] of its two 16-bit halves, so that the   *)
(* whole range 0..2^32-1 is there; lengths and counts that the code has    *)
(* bounded are plain integers.                                             *)
(***************************************************************************)
EXTENDS Integers, Sequences, FiniteSets, TLC

(***************************************************************************)
(* Program constants.                                                      *)
(***************************************************************************)
stringFlagSorted == 1
stringFlagUtf8 == 256
\* math.MaxUint32, as a uint32 (see the uint32 helpers below)
MaxUint32 == [hi |-> 65535, lo |-> 65535]
\* the bound of the "Too many strings" test, 2*1024*1024
TooManyStrings == 2 * 1024 * 1024

(***************************************************************************)
(* Bounds of the model.                                                    *)
(***************************************************************************)
\* largest stringCnt of the pools whose entries are looked up
MaxStrings == 2
\* number of get calls made on one pool
MaxGets == 3

(***************************************************************************)
(* Integer and byte helpers (Go's fixed-width operators).                  *)
(***************************************************************************)
Min(a, b) == IF a < b THEN a ELSE b

RECURSIVE Pow2(_)
Pow2(k) == IF k = 0 THEN 1 ELSE 2 * Pow2(k - 1)

\* a & b on non-negative integers
RECURSIVE BitAnd(_, _)
BitAnd(a, b) ==
  IF a = 0 \/ b = 0 THEN 0
  ELSE (IF a % 2 = 1 /\ b % 2 = 1 THEN 1 ELSE 0) + 2 * BitAnd(a \div 2, b \div 2)

\* a | b on non-negative integers
RECURSIVE BitOr(_, _)
BitOr(a, b) ==
  IF a = 0 THEN b
  ELSE IF b = 0 THEN a
  ELSE (IF a % 2 = 1 \/ b % 2 = 1 THEN 1 ELSE 0) + 2 * BitOr(a \div 2, b \div 2)

\* a &^ b
BitAndNot(a, b) == a - BitAnd(a, b)

\* a << k, for the masked operands of the length codecs (at most 15 bits
\* shifted by 16, 7 bits shifted by 8: no bit leaves the word)
Shl(a, k) == a * Pow2(k)

\* the uint32 of an integer 0 <= n < 2^31
U(n) == [hi |-> n \div 65536, lo |-> n % 65536]

\* the integer of a uint32 below 2^31
UInt(u) == u.hi * 65536 + u.lo

\* u >= n for a uint32 u and an integer 0 <= n < 2^31
UGeInt(u, n) == u.hi > n \div 65536 \/ (u.hi = n \div 65536 /\ u.lo >= n % 65536)

\* u & v and u &^ v on uint32
UAnd(u, v) == [hi |-> BitAnd(u.hi, v.hi), lo |-> BitAnd(u.lo, v.lo)]

UAndNot(u, v) == [hi |-> BitAndNot(u.hi, v.hi), lo |-> BitAndNot(u.lo, v.lo)]

\* s[from:], from counted from 0
Drop(s, from) == SubSeq(s, from + 1, Len(s))

\* s[:n]
Take(s, n) == SubSeq(s, 1, n)

\* binary.LittleEndian.Uint32 / Uint16 of the first bytes of b
LE32(b) == [hi |-> b[3] + 256 * b[4], lo |-> b[1] + 256 * b[2]]

\* the same four bytes read by a big-endian host
BE32(b) == [hi |-> b[2] + 256 * b[1], lo |-> b[4] + 256 * b[3]]

LE16(b) == b[1] + 256 * b[2]

(***************************************************************************)
(* The bounded reader: *io.LimitedReader{R, N} over an in-memory stream.   *)
(* buf is what R still holds, N the bytes the limit still allows.          *)
(***************************************************************************)
\* bytes a read can still obtain
Avail(r) == IF r.N <= 0 THEN 0 ELSE Min(r.N, Len(r.buf))

\* io.ReadFull(r, make([]byte, n)), also binary.Read of a fixed-size value
\* and io.CopyN(ioutil.Discard, r, n): n bytes or an error
ReadFull(r, n) ==
  LET got == Min(n, Avail(r))
  IN  [ok    |-> got = n,
       bytes |-> Take(r.buf, got),
       r     |-> [buf |-> Drop(r.buf, got), N |-> r.N - got]]

(***************************************************************************)
(* stringTable and its construction.                                       *)
(***************************************************************************)
\* the zero value of struct stringTable: nil slices, nil map
ZeroTable ==
  [isUtf8        |-> FALSE,
   stringOffsets |-> <<>>,
   offsetsLen    |-> 0,
   offsetsNil    |-> TRUE,
   data          |-> <<>>,
   cache         |-> <<>>,
   cacheNil      |-> TRUE]

\* the error values of construction and lookup ("" is nil)
ErrNone == ""
ErrStringCnt == "error reading stringCnt"
ErrStyleCnt == "error reading styleCnt"
ErrFlags == "error reading flags"
ErrUnknownFlag == "Unknown string flag"
ErrStringOffset == "error reading stringOffset"
ErrStyleOffset == "error reading styleOffset"
ErrTooMany == "Too many strings in this file"
ErrOffsetsData == "Failed to read string offsets data"
ErrWrongOffset == "Wrong string offset"
ErrStyleArray == "error reading styleArray"
ErrTableData == "Failed to read string table data"
ErrNotFound == "String with idx not found"
ErrOutOfBounds == "String offset for idx is out of bounds"
ErrCharCount == "error reading string char count"
ErrReadString == "error reading string"
ErrInvalidUtf8 == "invalid utf8 sequence"
\* not an error value: the run-time panic of a store into a nil map
PanicNilMap == "panic: assignment to entry in nil map"

\* the count test with > for >=: the count 2*1024*1024 itself goes through
TooMany_Gt(stringCnt) == UGeInt(stringCnt, TooManyStrings + 1)

\* the test of the string count that guards the allocation of the table
TooMany(stringCnt) == UGeInt(stringCnt, TooManyStrings)

\* the remainder with the offset counted from the start of the chunk body
\* (5*4 header bytes) instead of from the start of the chunk (7*4)
Remainder_Body(stringOffset, stringCnt) ==
  IF stringOffset.hi >= 16384 THEN Pow2(30)
  ELSE UInt(stringOffset) - 5 * 4 - 4 * stringCnt

\* remainder := int64(stringOffset) - 7*4 - 4*int64(stringCnt), for a count
\* below TooManyStrings.  From 2^30 on the remainder is kept at 2^30: it is
\* positive and beyond the bytes any stream of the model holds.
Remainder(stringOffset, stringCnt) ==
  IF stringOffset.hi >= 16384 THEN Pow2(30)
  ELSE UInt(stringOffset) - 7 * 4 - 4 * stringCnt

\* the flags left after the known bits are cleared, and the mode they select
FlagsIsUtf8(flags) == UAnd(flags, U(stringFlagUtf8)) # U(0)

FlagsRest(flags) ==
  LET f1 == IF FlagsIsUtf8(flags) THEN UAndNot(flags, U(stringFlagUtf8)) ELSE flags
  IN  UAndNot(f1, U(stringFlagSorted))

\* Construction is written as one operator per read of parseStringTable,
\* each handing what it read to the next: Parse<Field>(res, x, ...) is the
\* code from the test of that read's error on.

\* lines 99..104: the data region was read (rData); the cache is made
ParseData(res, n, rData) ==
  IF ~rData.ok
  THEN [res |-> [res EXCEPT !.data = rData.bytes \o [k \in 1..(n - Len(rData.bytes)) |-> 0]],
        err |-> ErrTableData]
  ELSE [res |-> [res EXCEPT !.data = rData.bytes, !.cacheNil = FALSE], err |-> ErrNone]

\* lines 93..99: the bytes before the data were skipped (rSkip); data is
\* made with the r.N bytes the limit still allows, and read
ParseSkipped(res, rSkip) ==
  IF ~rSkip.ok THEN [res |-> res, err |-> ErrStyleArray]
  ELSE ParseData(res, rSkip.r.N, ReadFull(rSkip.r, rSkip.r.N))

\* lines 89..96: the remainder and the skip of the bytes before the data
ParseRemainder(res, r, remainder) ==
  IF remainder < 0 THEN [res |-> res, err |-> ErrWrongOffset]
  ELSE IF remainder > 0 THEN ParseSkipped(res, ReadFull(r, remainder))
  ELSE ParseSkipped(res, [ok |-> TRUE, bytes |-> <<>>, r |-> r])

\* lines 84..89: the offset table was allocated with 4*stringCnt bytes and
\* read (rOffs); after a short read the slice keeps its allocated length
\* (offsetsLen; the bytes not read are zero)
ParseOffsets(res, rOffs, stringCnt, stringOffset) ==
  IF ~rOffs.ok
  THEN [res |-> [res EXCEPT !.stringOffsets = rOffs.bytes,
                            !.offsetsLen = 4 * stringCnt,
                            !.offsetsNil = FALSE],
        err |-> ErrOffsetsData]
  ELSE ParseRemainder([res EXCEPT !.stringOffsets = rOffs.bytes,
                                  !.offsetsLen = 4 * stringCnt,
                                  !.offsetsNil = FALSE],
                      rOffs.r, Remainder(stringOffset, stringCnt))

\* lines 75..85: the styles offset was skipped (rStyleOff); the test of the
\* string count, then the allocation and the read of the offset table
ParseStyleOffset(res, rStyleOff, stringCnt, stringOffset) ==
  IF ~rStyleOff.ok THEN [res |-> res, err |-> ErrStyleOffset]
  ELSE IF TooMany(stringCnt) THEN [res |-> res, err |-> ErrTooMany]
  ELSE ParseOffsets(res, ReadFull(rStyleOff.r, 4 * UInt(stringCnt)),
                    UInt(stringCnt), stringOffset)

\* lines 70..75: stringOffset was read (rOff)
ParseStringOffset(res, rOff, stringCnt) ==
  IF ~rOff.ok THEN [res |-> res, err |-> ErrStringOffset]
  ELSE ParseStyleOffset(res, ReadFull(rOff.r, 4), stringCnt, LE32(rOff.bytes))

\* lines 60..70: the flags are known
ParseFlagBits(r, flags, stringCnt) ==
  IF FlagsRest(flags) # U(0)
  THEN [res |-> [ZeroTable EXCEPT !.isUtf8 = FlagsIsUtf8(flags)], err |-> ErrUnknownFlag]
  ELSE ParseStringOffset([ZeroTable EXCEPT !.isUtf8 = FlagsIsUtf8(flags)],
                         ReadFull(r, 4), stringCnt)

\* lines 56..60: flags was read (rFlags)
ParseFlags(rFlags, stringCnt) ==
  IF ~rFlags.ok THEN [res |-> ZeroTable, err |-> ErrFlags]
  ELSE ParseFlagBits(rFlags.r, LE32(rFlags.bytes), stringCnt)

\* lines 52..56: the styles count was skipped (rStyle)
ParseStyleCnt(rStyle, stringCnt) ==
  IF ~rStyle.ok THEN [res |-> ZeroTable, err |-> ErrStyleCnt]
  ELSE ParseFlags(ReadFull(rStyle.r, 4), stringCnt)

\* lines 47..52: stringCnt was read (rCnt)
ParseStringCnt(rCnt) ==
  IF ~rCnt.ok THEN [res |-> ZeroTable, err |-> ErrStringCnt]
  ELSE ParseStyleCnt(ReadFull(rCnt.r, 4), LE32(rCnt.bytes))

\* parseStringTable(r): the table it returns and its error
parseStringTable(r) == ParseStringCnt(ReadFull(r, 4))

(***************************************************************************)
(* The decoders.  A decoder reads from bytes.NewReader(t.data[offset:]),   *)
(* modelled by the bytes not yet read.                                     *)
(***************************************************************************)
\* binary.Read of n bytes from a bytes.Reader
ReadBytes(b, n) ==
  [ok |-> Len(b) >= n, bytes |-> Take(b, Min(n, Len(b))), rest |-> Drop(b, Min(n, Len(b)))]

\* the loop that drops trailing zero elements: the buffer cut after its
\* last non-zero element
StripNul(buf) ==
  LET n == CHOOSE k \in 0..Len(buf) :
             /\ k = 0 \/ buf[k] # 0
             /\ \A j \in (k + 1)..Len(buf) : buf[j] = 0
  IN  Take(buf, n)

\* unicode/utf8: the bytes a sequence starting with c0 takes (0: c0 starts
\* none), and the range accepted for its second byte
Utf8Size(c0) ==
  IF c0 < 128 THEN 1
  ELSE IF c0 >= 194 /\ c0 <= 223 THEN 2
  ELSE IF c0 >= 224 /\ c0 <= 239 THEN 3
  ELSE IF c0 >= 240 /\ c0 <= 244 THEN 4
  ELSE 0

Utf8SecondLo(c0) == IF c0 = 224 THEN 160 ELSE IF c0 = 240 THEN 144 ELSE 128

Utf8SecondHi(c0) == IF c0 = 237 THEN 159 ELSE IF c0 = 244 THEN 143 ELSE 191

\* unicode/utf8.Valid.  The scan of Valid starts a sequence exactly at the
\* bytes that are not continuation bytes (128..191) and rejects every other
\* placement, so p is valid iff every such byte starts a complete sequence
\* and every continuation byte lies inside the sequence of a start before it.
Utf8Valid(p) ==
  LET IsCont(k) == p[k] >= 128 /\ p[k] <= 191
      StartOk(i) ==
        LET size == Utf8Size(p[i])
        IN  /\ size # 0
            /\ i + size - 1 <= Len(p)
            /\ size >= 2 => p[i + 1] >= Utf8SecondLo(p[i]) /\ p[i + 1] <= Utf8SecondHi(p[i])
            /\ \A k \in (i + 2)..(i + size - 1) : IsCont(k)
      Covered(i) ==
        \E d \in 1..3 :
          /\ i - d >= 1
          /\ ~IsCont(i - d)
          /\ Utf8Size(p[i - d]) > d
          /\ \A k \in (i - d + 1)..(i - 1) : IsCont(k)
  IN  \A i \in 1..Len(p) : IF IsCont(i) THEN Covered(i) ELSE StartOk(i)

\* binary.Read of n 16-bit units from a bytes.Reader
ReadUnits(b, n) ==
  LET got == Min(n, Len(b) \div 2)
  IN  [ok |-> Len(b) \div 2 >= n, bytes |-> Take(b, 2 * got), rest |-> Drop(b, 2 * got)]

\* binary.Read into a []uint16: the little-endian units of 2*n bytes
Units(bytes) == [k \in 1..(Len(bytes) \div 2) |-> bytes[2 * k - 1] + 256 * bytes[2 * k]]

\* the concatenation of the sequences ss[lo..hi]
RECURSIVE Flatten(_, _, _)
Flatten(ss, lo, hi) ==
  IF lo > hi THEN <<>>
  ELSE IF lo = hi THEN ss[lo]
  ELSE LET mid == (lo + hi) \div 2
       IN  Flatten(ss, lo, mid) \o Flatten(ss, mid + 1, hi)

\* unicode/utf16.Decode: a high surrogate followed by a low one is one rune,
\* any other surrogate is U+FFFD.  A low surrogate is the second half of a
\* pair exactly when the unit before it is a high surrogate.
Utf16Decode(u) ==
  LET IsHigh(k) == u[k] >= 55296 /\ u[k] < 56320
      IsLow(k)  == u[k] >= 56320 /\ u[k] < 57344
      Second(k) == k > 1 /\ IsLow(k) /\ IsHigh(k - 1)
      RuneAt(k) ==
        IF Second(k) THEN <<>>
        ELSE IF IsHigh(k) /\ k < Len(u) /\ IsLow(k + 1)
             THEN <<(u[k] - 55296) * 1024 + (u[k + 1] - 56320) + 65536>>
        ELSE IF IsHigh(k) \/ IsLow(k) THEN <<65533>>
        ELSE <<u[k]>>
  IN  Flatten([k \in 1..Len(u) |-> RuneAt(k)], 1, Len(u))

\* the UTF-8 bytes of one rune, as the conversion string([]rune) writes them
EncodeRune(r) ==
  IF r < 128 THEN <<r>>
  ELSE IF r < 2048 THEN <<192 + (r \div 64), 128 + (r % 64)>>
  ELSE IF (r >= 55296 /\ r < 57344) \/ r > 1114111 THEN <<239, 191, 189>>
  ELSE IF r < 65536
       THEN <<224 + (r \div 4096), 128 + ((r \div 64) % 64), 128 + (r % 64)>>
  ELSE <<240 + (r \div 262144), 128 + ((r \div 4096) % 64),
         128 + ((r \div 64) % 64), 128 + (r % 64)>>

\* string(decoded) of a []rune
RunesToString(rs) == Flatten([k \in 1..Len(rs) |-> EncodeRune(rs[k])], 1, Len(rs))

\* parseString16, lines 125..135: the units were read (rBuf)
String16Units(rBuf) ==
  IF ~rBuf.ok THEN [str |-> <<>>, err |-> ErrReadString]
  ELSE [str |-> RunesToString(StripNul(Utf16Decode(Units(rBuf.bytes)))), err |-> ErrNone]

\* parseString16, lines 116..126: the low unit of the extended form was read
String16Low(high, rLow) ==
  IF ~rLow.ok THEN [str |-> <<>>, err |-> ErrCharCount]
  ELSE String16Units(ReadUnits(rLow.rest,
                               BitOr(Shl(BitAnd(high, 32767), 16), LE16(rLow.bytes))))

\* parseString16, lines 111..126: the first unit was read (rHigh)
String16High(rHigh) ==
  IF ~rHigh.ok THEN [str |-> <<>>, err |-> ErrCharCount]
  ELSE IF BitAnd(LE16(rHigh.bytes), 32768) # 0
       THEN String16Low(LE16(rHigh.bytes), ReadBytes(rHigh.rest, 2))
  ELSE String16Units(ReadUnits(rHigh.rest, LE16(rHigh.bytes)))

\* parseString16: the string at the head of b, or an error
parseString16(b) == String16High(ReadBytes(b, 2))

\* parseString8Len, lines 147..150: the second byte was read (rLow)
String8LenLow(high, rLow) ==
  IF ~rLow.ok THEN [ok |-> FALSE, len |-> 0, rest |-> rLow.rest]
  ELSE [ok   |-> TRUE,
        len  |-> BitOr(Shl(BitAnd(high, 127), 8), rLow.bytes[1]),
        rest |-> rLow.rest]

\* a length codec that knows the one-byte form only
String8LenHigh_OneByte(rHigh) ==
  IF ~rHigh.ok THEN [ok |-> FALSE, len |-> 0, rest |-> rHigh.rest]
  ELSE [ok |-> TRUE, len |-> rHigh.bytes[1], rest |-> rHigh.rest]

\* parseString8Len, lines 142..154: the first byte was read (rHigh)
String8LenHigh(rHigh) ==
  IF ~rHigh.ok THEN [ok |-> FALSE, len |-> 0, rest |-> rHigh.rest]
  ELSE IF BitAnd(rHigh.bytes[1], 128) # 0
       THEN String8LenLow(rHigh.bytes[1], ReadBytes(rHigh.rest, 1))
  ELSE [ok |-> TRUE, len |-> rHigh.bytes[1], rest |-> rHigh.rest]

\* parseString8Len: the length read at the head of b and the bytes after it
parseString8Len(b) == String8LenHigh(ReadBytes(b, 1))

\* parseString8, lines 174..182: the payload without its trailing NULs
String8Checked(buf) ==
  IF ~Utf8Valid(buf) THEN [str |-> <<>>, err |-> ErrInvalidUtf8]
  ELSE [str |-> buf, err |-> ErrNone]

\* parseString8, lines 169..174: the payload was read (rBuf)
String8Payload(rBuf) ==
  IF ~rBuf.ok THEN [str |-> <<>>, err |-> ErrReadString]
  ELSE String8Checked(StripNul(rBuf.bytes))

\* parseString8, lines 164..170: the byte length was read (l8)
String8Len8(l8) ==
  IF ~l8.ok THEN [str |-> <<>>, err |-> ErrCharCount]
  ELSE String8Payload(ReadBytes(l8.rest, l8.len))

\* parseString8, lines 159..164: the UTF-16 length was read (l16), and is
\* not used
String8Len16(l16) ==
  IF ~l16.ok THEN [str |-> <<>>, err |-> ErrCharCount]
  ELSE String8Len8(parseString8Len(l16.rest))

\* parseString8: the string at the head of b, or an error
parseString8(b) == String8Len16(parseString8Len(b))

(***************************************************************************)
(* Lookup.                                                                 *)
(***************************************************************************)
\* uint32(len(t.stringOffsets)/4)
NumOffsets(t) == t.offsetsLen \div 4

\* byte k (from 1) of t.stringOffsets; bytes a short read left unread are zero
OffsetByte(t, k) == IF k <= Len(t.stringOffsets) THEN t.stringOffsets[k] ELSE 0

\* *(*uint32)(unsafe.Pointer(hdr.Data + 4*uintptr(idx))): the four bytes at
\* 4*idx read in the byte order of the host
OffsetAt(t, idx, bigEndian) ==
  LET b == [k \in 1..4 |-> OffsetByte(t, 4 * idx + k)]
  IN  IF bigEndian THEN BE32(b) ELSE LE32(b)

\* a lookup that never consults the cache
GetLookup_NoCache(t, idx) ==
  IF idx = MaxUint32 THEN [done |-> TRUE, str |-> <<>>, err |-> ErrNone, hit |-> FALSE]
  ELSE IF UGeInt(idx, t.offsetsLen \div 4)
       THEN [done |-> TRUE, str |-> <<>>, err |-> ErrNotFound, hit |-> FALSE]
  ELSE [done |-> FALSE, str |-> <<>>, err |-> ErrNone, hit |-> FALSE]

\* a lookup that tests the index against the table before the sentinel
GetLookup_IndexFirst(t, idx) ==
  IF UGeInt(idx, t.offsetsLen \div 4)
  THEN [done |-> TRUE, str |-> <<>>, err |-> ErrNotFound, hit |-> FALSE]
  ELSE IF idx = MaxUint32 THEN [done |-> TRUE, str |-> <<>>, err |-> ErrNone, hit |-> FALSE]
  ELSE IF idx \in DOMAIN t.cache
       THEN [done |-> TRUE, str |-> t.cache[idx], err |-> ErrNone, hit |-> TRUE]
  ELSE [done |-> FALSE, str |-> <<>>, err |-> ErrNone, hit |-> FALSE]

\* a lookup whose index test is > for >=
GetLookup_IndexGt(t, idx) ==
  IF idx = MaxUint32 THEN [done |-> TRUE, str |-> <<>>, err |-> ErrNone, hit |-> FALSE]
  ELSE IF UGeInt(idx, t.offsetsLen \div 4 + 1)
       THEN [done |-> TRUE, str |-> <<>>, err |-> ErrNotFound, hit |-> FALSE]
  ELSE IF idx \in DOMAIN t.cache
       THEN [done |-> TRUE, str |-> t.cache[idx], err |-> ErrNone, hit |-> TRUE]
  ELSE [done |-> FALSE, str |-> <<>>, err |-> ErrNone, hit |-> FALSE]

\* get, lines 186..194: the sentinel, the index test and the cache lookup;
\* done when get returns there
GetLookup(t, idx) ==
  IF idx = MaxUint32 THEN [done |-> TRUE, str |-> <<>>, err |-> ErrNone, hit |-> FALSE]
  ELSE IF UGeInt(idx, NumOffsets(t))
       THEN [done |-> TRUE, str |-> <<>>, err |-> ErrNotFound, hit |-> FALSE]
  ELSE IF idx \in DOMAIN t.cache
       THEN [done |-> TRUE, str |-> t.cache[idx], err |-> ErrNone, hit |-> TRUE]
  ELSE [done |-> FALSE, str |-> <<>>, err |-> ErrNone, hit |-> FALSE]

\* get, lines 203..211: the decoder of the table's mode on t.data[offset:]
DecodeAt(t, offset) ==
  IF t.isUtf8 THEN parseString8(Drop(t.data, offset)) ELSE parseString16(Drop(t.data, offset))

\* a bounds test that is > for >=
GetBounded_OffByOne(t, offset) ==
  IF UGeInt(offset, Len(t.data) + 1)
  THEN [str |-> <<>>, err |-> ErrOutOfBounds, decoded |-> FALSE]
  ELSE [decoded |-> TRUE] @@ DecodeAt(t, UInt(offset))

\* get, lines 199..215: the bounds test of the offset, then the decoder
GetBounded(t, offset) ==
  IF UGeInt(offset, Len(t.data))
  THEN [str |-> <<>>, err |-> ErrOutOfBounds, decoded |-> FALSE]
  ELSE [decoded |-> TRUE] @@ DecodeAt(t, UInt(offset))

\* get, lines 196..215: the offset of the entry, the bounds test and the decoder
GetDecode(t, idx, bigEndian) == GetBounded(t, OffsetAt(t, UInt(idx), bigEndian))

\* get, line 217: t.cache[idx] = res
GetStore(t, idx, res) == [t EXCEPT !.cache = (idx :> res) @@ t.cache]

\* a get that caches the empty string for an index whose lookup failed
GetDecoded_CacheErr(t, idx, d) ==
  IF d.err # ErrNone
  THEN [str |-> <<>>, err |-> d.err,
        t |-> IF t.cacheNil THEN t ELSE [t EXCEPT !.cache = (idx :> <<>>) @@ t.cache],
        decoded |-> d.decoded, readOffsets |-> TRUE, readData |-> d.decoded,
        wrote |-> ~t.cacheNil]
  ELSE IF t.cacheNil
  THEN [str |-> <<>>, err |-> PanicNilMap, t |-> t, decoded |-> TRUE,
        readOffsets |-> TRUE, readData |-> TRUE, wrote |-> FALSE]
  ELSE [str |-> d.str, err |-> ErrNone, t |-> [t EXCEPT !.cache = (idx :> d.str) @@ t.cache],
        decoded |-> TRUE, readOffsets |-> TRUE, readData |-> TRUE, wrote |-> TRUE]

\* get, lines 213..218, after the decoder returned d
GetDecoded(t, idx, d) ==
  IF d.err # ErrNone
  THEN [str |-> <<>>, err |-> d.err, t |-> t, decoded |-> d.decoded,
        readOffsets |-> TRUE, readData |-> d.decoded, wrote |-> FALSE]
  ELSE IF t.cacheNil
  THEN [str |-> <<>>, err |-> PanicNilMap, t |-> t, decoded |-> TRUE,
        readOffsets |-> TRUE, readData |-> TRUE, wrote |-> FALSE]
  ELSE [str |-> d.str, err |-> ErrNone, t |-> GetStore(t, idx, d.str), decoded |-> TRUE,
        readOffsets |-> TRUE, readData |-> TRUE, wrote |-> TRUE]

\* get after the lookup lk of lines 186..194
GetLooked(t, idx, bigEndian, lk) ==
  IF lk.done
  THEN [str |-> lk.str, err |-> lk.err, t |-> t, decoded |-> FALSE,
        readOffsets |-> FALSE, readData |-> FALSE, wrote |-> FALSE]
  ELSE GetDecoded(t, idx, GetDecode(t, idx, bigEndian))

\* get(idx) on t: what it returns, the table it leaves, and what it did
\* (decoded: a decoder ran; readOffsets, readData: it read the offset table,
\* the data region; wrote: it stored into the cache)
get(t, idx, bigEndian) == GetLooked(t, idx, bigEndian, GetLookup(t, idx))

\* an isEmpty that reports a cache without entries
isEmpty_NoEntries(t) == DOMAIN t.cache = {}

\* isEmpty(): t.cache == nil
isEmpty(t) == t.cacheNil

(***************************************************************************)
(* Inputs: chunk bodies handed to parseStringTable.                        *)
(***************************************************************************)
\* the four little-endian bytes of the uint32 u
U32(u) == <<u.lo % 256, u.lo \div 256, u.hi % 256, u.hi \div 256>>

Fill(n, b) == [k \in 1..n |-> b]

\* the offset table of the offsets offs, as it lies in the chunk
OffsetBytes(offs) ==
  [k \in 1..(4 * Len(offs)) |-> U32(U(offs[((k - 1) \div 4) + 1]))[((k - 1) % 4) + 1]]

\* c offsets of master from position k on, cyclically
Window(master, k, c) == [j \in 1..c |-> master[((k + j - 2) % Len(master)) + 1]]

\* the chunk body: five header fields, offset table, skipped bytes, data
Stream(cnt, flags, strOff, offsBytes, pad, data) ==
  U32(cnt) \o U32(U(0)) \o U32(flags) \o U32(strOff) \o U32(U(0)) \o offsBytes \o pad \o data

\* a data region of UTF-8 entries: "A" (one-byte lengths), "BCD" (two-byte
\* lengths), a lone continuation byte, "A" with a NUL inside its length,
\* U+00E9, and an entry cut short by the end of the region
Data8 ==
  <<1, 1, 65, 0>> \o <<128, 3, 128, 3, 66, 67, 68, 0>> \o <<1, 1, 128, 0>>
    \o <<2, 2, 65, 0, 0>> \o <<1, 2, 195, 169, 0>> \o <<5, 5, 65, 66>>

\* entry starts of Data8, its last byte, its length (out of bounds) and 1
Offsets8 == <<0, 4, 12, 16, 21, 26, 30, 1, 29>>

\* a data region of UTF-16 entries: "A", U+1F600 as a surrogate pair, a lone
\* surrogate, "B" with the two-unit length form, and an entry cut short
Data16 ==
  <<1, 0, 65, 0, 0, 0>> \o <<2, 0, 61, 216, 0, 222, 0, 0>> \o <<1, 0, 0, 216>>
    \o <<0, 128, 1, 0, 66, 0>> \o <<3, 0, 65, 0>>

Offsets16 == <<0, 6, 14, 18, 24, 28, 1, 27>>

\* a 200-byte UTF-8 entry framed with two-byte lengths, then "A" framed with
\* one-byte lengths
DataLong == <<128, 200, 128, 200>> \o Fill(200, 97) \o <<0>> \o <<1, 1, 65, 0>>

OffsetsLong == <<0, 205>>

Fixtures ==
  { [data |-> Data8, offs |-> Offsets8],
    [data |-> Data16, offs |-> Offsets16],
    [data |-> DataLong, offs |-> OffsetsLong] }

\* values of the flags field: the known bits, and unknown ones
FlagValues == {U(0), U(1), U(256), U(257), U(2), U(258), [hi |-> 32768, lo |-> 0]}

\* well-formed chunks over the fixtures, in both modes
ContentReaders ==
  UNION { { [buf |-> Stream(U(c), U(f), U(28 + 4 * c),
                            OffsetBytes(Window(x.offs, k, c)), <<>>, x.data),
             N   |-> 20 + 4 * c + Len(x.data)] :
              f \in {0, 256}, c \in 0..MaxStrings, k \in 1..Len(x.offs) } :
          x \in Fixtures }

\* headers with small and with excessive string counts, any flags, cut short
\* after every field
HeaderReaders ==
  { [buf |-> Take(Stream(c, f, U(28), <<>>, <<>>, <<1, 1, 65, 0>>), cut), N |-> cut] :
      c \in {U(0), U(1), U(TooManyStrings - 1), U(TooManyStrings), U(TooManyStrings + 1),
             MaxUint32},
      f \in FlagValues,
      cut \in {3, 7, 11, 15, 19, 20, 24} }

\* layouts: bytes between the offset table and the data, a declared data
\* offset before, at and after the end of those bytes, and a limit N below,
\* at and above the bytes the stream holds
LayoutReaders ==
  { LET b == Stream(U(c), U(0), U(28 + 4 * c + Len(pad) + delta),
                    OffsetBytes(Window(Offsets16, 1, c)), pad, Data16)
    IN  [buf |-> b, N |-> Len(b) + nDelta] :
      c \in 0..MaxStrings,
      pad \in {<<>>, <<238, 238, 238, 238>>},
      delta \in {-4, 0, 4},
      nDelta \in {-3, 0, 2} }

Readers == ContentReaders \cup HeaderReaders \cup LayoutReaders

\* the indices looked up: in and beyond the table, the largest real index
\* and the sentinel
Indices == {U(i) : i \in 0..MaxStrings} \cup {[hi |-> 65535, lo |-> 65534], MaxUint32}

(***************************************************************************)
(* State.                                                                  *)
(***************************************************************************)
VARIABLES
  reader,     \* the *io.LimitedReader handed to parseStringTable
  bigEndian,  \* the byte order of the host
  phase,      \* "new", then "ok" or "failed" once parseStringTable returned
  t,          \* the stringTable
  perr,       \* the error parseStringTable returned
  last,       \* the last get: its index, what it returned and what it did
  nGets,      \* number of get calls made
  decodes,    \* per index, runs of a decoder
  writes,     \* per index, stores into the cache
  returned,   \* per index, the first string a get returned for it
  pc,         \* per concurrent caller, its position in get
  arg,        \* per concurrent caller, the index it looks up
  loc,        \* per concurrent caller, the result it decoded
  mode,       \* "single" caller, or two callers "locked" or "unlocked"
  lock,       \* the caller holding the lock, 0 when free
  fatal,      \* the run-time stopped the program on a concurrent map access
  lenIn,      \* the bytes handed to parseString8Len on its own
  lenOut      \* what parseString8Len returned for them

vars ==
  <<reader, bigEndian, phase, t, perr, last, nGets, decodes, writes, returned,
    pc, arg, loc, mode, lock, fatal, lenIn, lenOut>>

concVars == <<pc, arg, loc, mode, lock, fatal>>

codecVars == <<lenIn, lenOut>>

\* lenOut before parseString8Len was applied
NoLen == [ok |-> FALSE, len |-> 0 - 1, rest |-> <<>>]

NoGet ==
  [op |-> "none", idx |-> U(0), str |-> <<>>, err |-> ErrNone, decoded |-> FALSE,
   readOffsets |-> FALSE, readData |-> FALSE, wrote |-> FALSE]

\* the callers of the concurrent specification
Callers == {1, 2}

Init ==
  /\ reader \in Readers
  /\ bigEndian \in BOOLEAN
  /\ phase = "new"
  /\ t = ZeroTable
  /\ perr = ErrNone
  /\ last = NoGet
  /\ nGets = 0
  /\ decodes = [i \in Indices |-> 0]
  /\ writes = [i \in Indices |-> 0]
  /\ returned = <<>>
  /\ pc = [c \in Callers |-> "idle"]
  /\ arg = [c \in Callers |-> U(0)]
  /\ loc = [c \in Callers |-> <<>>]
  /\ mode = "single"
  /\ lock = 0
  /\ fatal = FALSE
  /\ lenIn = <<>>
  /\ lenOut = NoLen

\* parseStringTable(reader)
Construct ==
  /\ phase = "new"
  /\ \E p \in {parseStringTable(reader)} :
         /\ t' = p.res
         /\ perr' = p.err
         /\ phase' = IF p.err = ErrNone THEN "ok" ELSE "failed"
  /\ UNCHANGED <<reader, bigEndian, last, nGets, decodes, writes, returned>>
  /\ UNCHANGED <<concVars, codecVars>>

\* t.get(idx), by the single owner of the table
Get(idx) ==
  /\ phase \in {"ok", "failed"}
  /\ nGets < MaxGets
  /\ \E g \in {get(t, idx, bigEndian)} :
         /\ t' = g.t
         /\ last' = [op |-> "get", idx |-> idx, str |-> g.str, err |-> g.err,
                     decoded |-> g.decoded, readOffsets |-> g.readOffsets,
                     readData |-> g.readData, wrote |-> g.wrote]
         /\ decodes' = IF g.decoded THEN [decodes EXCEPT ![idx] = @ + 1] ELSE decodes
         /\ writes' = IF g.wrote THEN [writes EXCEPT ![idx] = @ + 1] ELSE writes
         /\ returned' = IF g.err = ErrNone /\ idx # MaxUint32 /\ idx \notin DOMAIN returned
                        THEN (idx :> g.str) @@ returned
                        ELSE returned
  /\ nGets' = nGets + 1
  /\ UNCHANGED <<reader, bigEndian, phase, perr>>
  /\ UNCHANGED <<concVars, codecVars>>

Next == Construct \/ \E idx \in Indices : Get(idx)

Spec == Init /\ [][Next]_vars

(***************************************************************************)
(* Concurrent callers of get on one table.  get takes no lock: its cache   *)
(* lookup (line 192), its decoding (lines 196..215) and its cache store    *)
(* (line 217) are separate steps of a caller.  In mode "locked" the owner  *)
(* wraps every get in one mutex; in mode "single" there is one caller.     *)
(* A map access that overlaps another caller's store is a data race: the   *)
(* run-time may stop the program (fatal) or let both go on.                *)
(***************************************************************************)
Active == IF mode = "single" THEN {1} ELSE Callers

\* tables of the well-formed chunks, constructed
ConcReaders == {r \in ContentReaders : parseStringTable(r).err = ErrNone}

InitConc ==
  /\ reader \in ConcReaders
  /\ bigEndian \in BOOLEAN
  /\ phase = "ok"
  /\ t = parseStringTable(reader).res
  /\ perr = ErrNone
  /\ last = NoGet
  /\ nGets = 0
  /\ decodes = [i \in Indices |-> 0]
  /\ writes = [i \in Indices |-> 0]
  /\ returned = <<>>
  /\ pc = [c \in Callers |-> "idle"]
  /\ arg = [c \in Callers |-> U(0)]
  /\ loc = [c \in Callers |-> <<>>]
  /\ mode \in {"single", "locked", "unlocked"}
  /\ lock = 0
  /\ fatal = FALSE
  /\ lenIn = <<>>
  /\ lenOut = NoLen

\* a caller that enters get without taking the lock
CLookup_NoLock(c, idx) ==
  /\ ~fatal
  /\ c \in Active
  /\ pc[c] = "idle"
  /\ nGets < MaxGets
  /\ \E lk \in {GetLookup(t, idx)} :
       /\ pc' = [pc EXCEPT ![c] = IF lk.done THEN "idle" ELSE "decode"]
       /\ lock' = lock
  /\ arg' = [arg EXCEPT ![c] = idx]
  /\ nGets' = nGets + 1
  /\ UNCHANGED <<reader, bigEndian, phase, t, perr, last, decodes, writes, returned,
                 loc, mode, fatal, codecVars>>

\* caller c enters get(idx): lines 186..194
CLookup(c, idx) ==
  /\ ~fatal
  /\ c \in Active
  /\ pc[c] = "idle"
  /\ nGets < MaxGets
  /\ mode = "locked" => lock = 0
  /\ \E lk \in {GetLookup(t, idx)} :
       /\ pc' = [pc EXCEPT ![c] = IF lk.done THEN "idle" ELSE "decode"]
       /\ lock' = IF mode = "locked" /\ ~lk.done THEN c ELSE lock
  /\ arg' = [arg EXCEPT ![c] = idx]
  /\ nGets' = nGets + 1
  /\ UNCHANGED <<reader, bigEndian, phase, t, perr, last, decodes, writes, returned,
                 loc, mode, fatal, codecVars>>

\* caller c reads the offset and runs the decoder: lines 196..215
CDecode(c) ==
  /\ ~fatal
  /\ pc[c] = "decode"
  /\ \E d \in {GetDecode(t, arg[c], bigEndian)} :
       /\ decodes' = IF d.decoded THEN [decodes EXCEPT ![arg[c]] = @ + 1] ELSE decodes
       /\ pc' = [pc EXCEPT ![c] = IF d.err = ErrNone THEN "store" ELSE "idle"]
       /\ loc' = [loc EXCEPT ![c] = d.str]
       /\ lock' = IF d.err = ErrNone THEN lock ELSE 0
  /\ UNCHANGED <<reader, bigEndian, phase, t, perr, last, nGets, writes, returned,
                 arg, mode, fatal, codecVars>>

\* caller c begins the store of line 217
CStoreBegin(c) ==
  /\ ~fatal
  /\ pc[c] = "store"
  /\ pc' = [pc EXCEPT ![c] = "storing"]
  /\ UNCHANGED <<reader, bigEndian, phase, t, perr, last, nGets, decodes, writes,
                 returned, arg, loc, mode, lock, fatal, codecVars>>

\* caller c completes the store of line 217 and returns
CStoreEnd(c) ==
  /\ ~fatal
  /\ pc[c] = "storing"
  /\ t' = GetStore(t, arg[c], loc[c])
  /\ writes' = [writes EXCEPT ![arg[c]] = @ + 1]
  /\ pc' = [pc EXCEPT ![c] = "idle"]
  /\ lock' = 0
  /\ UNCHANGED <<reader, bigEndian, phase, perr, last, nGets, decodes, returned,
                 arg, loc, mode, fatal, codecVars>>

\* without the lock, caller c reaches its store, or enters a get that looks
\* the cache up, while another caller is inside its store: the run-time may
\* detect the concurrent map access
CFatal(c) ==
  /\ ~fatal
  /\ mode = "unlocked"
  /\ pc[c] = "store" \/ (pc[c] = "idle" /\ nGets < MaxGets)
  /\ \E o \in Callers \ {c} : pc[o] = "storing"
  /\ fatal' = TRUE
  /\ UNCHANGED <<reader, bigEndian, phase, t, perr, last, nGets, decodes, writes,
                 returned, pc, arg, loc, mode, lock, codecVars>>

NextConc ==
  \E c \in Callers :
    \/ \E idx \in Indices : CLookup(c, idx)
    \/ CDecode(c)
    \/ CStoreBegin(c)
    \/ CStoreEnd(c)
    \/ CFatal(c)

SpecConc == InitConc /\ [][NextConc]_vars

(***************************************************************************)
(* The 8-bit-unit length codec on its own, over every first and second     *)
(* byte, beside the lookups of the pools that hold the 200-byte entry.     *)
(***************************************************************************)
Bytes == 0..255

LenInputs == {<<h>> : h \in Bytes} \cup {<<h, l>> : h \in Bytes, l \in Bytes}

\* the well-formed UTF-8 chunks over DataLong
LongReaders ==
  { [buf |-> Stream(U(c), U(256), U(28 + 4 * c),
                    OffsetBytes(Window(OffsetsLong, k, c)), <<>>, DataLong),
     N   |-> 20 + 4 * c + Len(DataLong)] :
      c \in 1..MaxStrings, k \in 1..Len(OffsetsLong) }

InitCodec ==
  /\ \/ /\ phase = "codec"
        /\ lenIn \in LenInputs
        /\ reader = [buf |-> <<>>, N |-> 0]
        /\ bigEndian = FALSE
     \/ /\ phase = "new"
        /\ lenIn = <<>>
        /\ reader \in LongReaders
        /\ bigEndian \in BOOLEAN
  /\ lenOut = NoLen
  /\ t = ZeroTable
  /\ perr = ErrNone
  /\ last = NoGet
  /\ nGets = 0
  /\ decodes = [i \in Indices |-> 0]
  /\ writes = [i \in Indices |-> 0]
  /\ returned = <<>>
  /\ pc = [c \in Callers |-> "idle"]
  /\ arg = [c \in Callers |-> U(0)]
  /\ loc = [c \in Callers |-> <<>>]
  /\ mode = "single"
  /\ lock = 0
  /\ fatal = FALSE

\* parseString8Len(bytes.NewReader(lenIn))
CodecLen ==
  /\ phase = "codec"
  /\ lenOut = NoLen
  /\ lenOut' = parseString8Len(lenIn)
  /\ UNCHANGED <<reader, bigEndian, phase, t, perr, last, nGets, decodes, writes,
                 returned, lenIn>>
  /\ UNCHANGED concVars

NextCodec == CodecLen \/ Construct \/ \E idx \in Indices : Get(idx)

SpecCodec == InitCodec /\ [][NextCodec]_vars

(***************************************************************************)
(* Properties.                                                             *)
(***************************************************************************)
\* the step is a call of get by the single owner
IsGet == nGets' = nGets + 1 /\ last'.op = "get"

\* the offset the table holds for index i, as get reads it
EntryOffset(i) == OffsetAt(t, UInt(i), bigEndian)

\* the indices of the offset table
InTable(i) == i # MaxUint32 /\ ~UGeInt(i, NumOffsets(t))

\* C1: once get(i) has returned a string, every later get(i) returns the
\* same string without error and without running a decoder; a cache entry is
\* never overwritten or removed, and it is what decoding data at the offset
\* of its index gives.
C1_Step ==
  /\ \A i \in DOMAIN t.cache : i \in DOMAIN t'.cache /\ t'.cache[i] = t.cache[i]
  /\ (IsGet /\ last'.idx \in DOMAIN returned) =>
       /\ last'.err = ErrNone
       /\ last'.str = returned[last'.idx]
       /\ ~last'.decoded
       /\ decodes' = decodes
       /\ writes' = writes
       /\ t' = t
  /\ \A i \in DOMAIN t'.cache :
       /\ ~UGeInt(OffsetAt(t', UInt(i), bigEndian), Len(t'.data))
       /\ DecodeAt(t', UInt(OffsetAt(t', UInt(i), bigEndian)))
            = [str |-> t'.cache[i], err |-> ErrNone]

C1_CacheStable == [][C1_Step]_vars

\* a second get of an index is served from the cache
C1_Witness ==
  /\ phase = "ok"
  /\ last.op = "get"
  /\ last.idx \in DOMAIN returned
  /\ last.err = ErrNone
  /\ ~last.decoded
  /\ Len(last.str) > 0
  /\ decodes[last.idx] = 1
  /\ nGets >= 2

\* C2: a get that returns an error leaves the table as it was, creates no
\* cache entry for its index, and changes the result of no later get.
C2_Step ==
  (IsGet /\ last'.err \notin {ErrNone, PanicNilMap}) =>
    /\ t' = t
    /\ last'.idx \notin DOMAIN t'.cache
    /\ last'.str = <<>>
    /\ \A j \in Indices :
         /\ get(t', j, bigEndian).str = get(t, j, bigEndian).str
         /\ get(t', j, bigEndian).err = get(t, j, bigEndian).err

C2_ErrorLeavesPool == [][C2_Step]_vars

\* a decoder error on a table that already caches another entry
C2_Witness ==
  /\ phase = "ok"
  /\ last.op = "get"
  /\ last.err = ErrInvalidUtf8
  /\ DOMAIN t.cache # {}
  /\ last.idx \notin DOMAIN t.cache

\* the entry at offset lies inside data with its length prefixes and its
\* whole declared payload (8-bit-unit framing)
Fits8(data, offset) ==
  LET d  == Drop(data, offset)
      p1 == IF Len(d) >= 1 /\ d[1] >= 128 THEN 2 ELSE 1
      p2 == IF Len(d) >= p1 + 1 /\ d[p1 + 1] >= 128 THEN 2 ELSE 1
  IN  /\ Len(d) >= p1 + p2
      /\ Len(d) >= p1 + p2 + (IF p2 = 1 THEN d[p1 + 1]
                              ELSE (d[p1 + 1] - 128) * 256 + d[p1 + 2])

\* the same for the 16-bit-unit framing
Fits16(data, offset) ==
  LET d  == Drop(data, offset)
      u1 == d[1] + 256 * d[2]
      p  == IF Len(d) >= 2 /\ u1 >= 32768 THEN 4 ELSE 2
  IN  /\ Len(d) >= p
      /\ (Len(d) - p) \div 2 >= (IF p = 2 THEN u1
                                 ELSE (u1 - 32768) * 65536 + d[3] + 256 * d[4])

Fits(i) ==
  /\ ~UGeInt(EntryOffset(i), Len(t.data))
  /\ IF t.isUtf8 THEN Fits8(t.data, UInt(EntryOffset(i)))
     ELSE Fits16(t.data, UInt(EntryOffset(i)))

\* C3: get returns (and caches) a string only for an entry that lies inside
\* data; an offset at or beyond the end of data is the out-of-bounds error,
\* a declared length beyond the end of data is a short-read error, and
\* neither caches anything.
C3_InBounds ==
  /\ \A i \in DOMAIN t.cache : InTable(i) /\ Fits(i)
  /\ (last.op = "get" /\ last.idx # MaxUint32 /\ last.err = ErrNone) =>
       /\ last.idx \in DOMAIN t.cache
       /\ Fits(last.idx)
  /\ (last.op = "get" /\ InTable(last.idx) /\ UGeInt(EntryOffset(last.idx), Len(t.data))) =>
       /\ last.err = ErrOutOfBounds
       /\ last.str = <<>>
       /\ last.idx \notin DOMAIN t.cache
  /\ (last.op = "get" /\ InTable(last.idx) /\ ~Fits(last.idx)
        /\ ~UGeInt(EntryOffset(last.idx), Len(t.data))) =>
       /\ last.err \in {ErrCharCount, ErrReadString}
       /\ last.str = <<>>
       /\ last.idx \notin DOMAIN t.cache

\* a short read inside a string of a table that caches another entry
C3_Witness ==
  /\ phase = "ok"
  /\ last.op = "get"
  /\ last.err = ErrReadString
  /\ ~Fits(last.idx)
  /\ DOMAIN t.cache # {}

\* C4: get(0xFFFFFFFF) returns the empty string and no error on every
\* table, reads neither the offset table nor data, and leaves the cache.
C4_Step ==
  (IsGet /\ last'.idx = MaxUint32) =>
    /\ last'.str = <<>>
    /\ last'.err = ErrNone
    /\ ~last'.readOffsets
    /\ ~last'.readData
    /\ ~last'.decoded
    /\ ~last'.wrote
    /\ t' = t

C4_Sentinel == [][C4_Step]_vars

\* the sentinel looked up on a table that has entries and a cached string
C4_Witness ==
  /\ last.op = "get"
  /\ last.idx = MaxUint32
  /\ NumOffsets(t) > 0
  /\ DOMAIN t.cache # {}

\* C5: get(i) for an index at or beyond the length of the offset table,
\* other than the sentinel, is the "not found" error and reads neither the
\* offset table nor data, whatever the cache holds.
C5_NotFound ==
  (last.op = "get" /\ last.idx # MaxUint32 /\ UGeInt(last.idx, NumOffsets(t))) =>
    /\ last.err = ErrNotFound
    /\ last.str = <<>>
    /\ ~last.readOffsets
    /\ ~last.readData
    /\ ~last.decoded
    /\ ~last.wrote
    /\ last.idx \notin DOMAIN t.cache

\* the first index beyond a non-empty table, with a string cached
C5_Witness ==
  /\ last.op = "get"
  /\ last.err = ErrNotFound
  /\ NumOffsets(t) > 0
  /\ last.idx = U(NumOffsets(t))
  /\ DOMAIN t.cache # {}

\* the chunk body B: the bytes the bounded reader yields
Body == Take(reader.buf, Min(Len(reader.buf), IF reader.N < 0 THEN 0 ELSE reader.N))

\* the header fields of B, for a body long enough to hold them
BodyStringCnt == LE32(SubSeq(Body, 1, 4))

BodyFlags == LE32(SubSeq(Body, 9, 12))

BodyStringOffset == LE32(SubSeq(Body, 13, 16))

KnownFlags == {U(0), U(1), U(256), U(257)}

\* C6 as claimed: a string count of 2*1024*1024 or more always ends in the
\* "too many strings" error, whatever the flags and however many bytes
\* follow, with no offset table allocated.
C6_Claimed ==
  (phase # "new" /\ Len(Body) >= 4 /\ UGeInt(BodyStringCnt, TooManyStrings)) =>
    /\ perr = ErrTooMany
    /\ t.offsetsNil

\* C6, amended: a string count of 2*1024*1024 or more always fails and
\* never allocates the offset table; the error is "too many strings" when
\* the five header fields are there and flags has no bit outside {0x1,
\* 0x100}; it is the unknown-flag error when flags has another bit, and the
\* short-read error of the first header field that is cut short otherwise.
C6_TooMany ==
  (phase # "new" /\ Len(Body) >= 4 /\ UGeInt(BodyStringCnt, TooManyStrings)) =>
    /\ phase = "failed"
    /\ perr # ErrNone
    /\ t.offsetsNil
    /\ t.stringOffsets = <<>>
    /\ t.cacheNil
    /\ (Len(Body) >= 20 /\ BodyFlags \in KnownFlags) => perr = ErrTooMany
    /\ (Len(Body) >= 12 /\ BodyFlags \notin KnownFlags) => perr = ErrUnknownFlag
    /\ Len(Body) < 8 => perr = ErrStyleCnt
    /\ (Len(Body) >= 8 /\ Len(Body) < 12) => perr = ErrFlags
    /\ (Len(Body) >= 12 /\ Len(Body) < 16 /\ BodyFlags \in KnownFlags) => perr = ErrStringOffset
    /\ (Len(Body) >= 16 /\ Len(Body) < 20 /\ BodyFlags \in KnownFlags) => perr = ErrStyleOffset

\* the count 2*1024*1024 itself, with a complete header, in UTF-8 mode
C6_Witness ==
  /\ phase = "failed"
  /\ perr = ErrTooMany
  /\ BodyStringCnt = U(TooManyStrings)
  /\ t.isUtf8
  /\ Len(Body) > 20

\* C7 as claimed: on a constructed table isEmpty() is true as long as no
\* get has stored a string in the cache, and false from the first one on.
C7_Claimed == phase = "ok" => (isEmpty(t) <=> DOMAIN t.cache = {})

\* C7, amended: isEmpty() reports that the cache map was never made
\* (t.cache == nil): it is false on a constructed table from construction
\* on, before any get as after, and true on the zero value and on the table
\* a failed construction returns.
C7_IsEmpty ==
  /\ phase = "ok" => ~isEmpty(t)
  /\ phase \in {"new", "failed"} => isEmpty(t)

\* a constructed table that a get has run on and that caches nothing
C7_Witness ==
  /\ phase = "ok"
  /\ last.op = "get"
  /\ DOMAIN t.cache = {}
  /\ ~isEmpty(t)

\* C8 as claimed: data is B from byte offset stringDataOffset, counted from
\* the start of B, to the end of B.
C8_Claimed ==
  phase = "ok" =>
    /\ BodyStringOffset.hi = 0
    /\ t.data = Drop(Body, UInt(BodyStringOffset))

\* C8, amended: data is B from byte offset stringDataOffset - 8 to the end
\* of B (the offset counts from the start of the chunk, whose 8-byte header
\* the caller has read before B); the offset table is the 4*stringCnt bytes
\* from offset 20, and the bytes between the two are in neither.
C8_DataRegion ==
  phase = "ok" =>
    /\ BodyStringOffset.hi = 0
    /\ UInt(BodyStringOffset) - 8 >= 20 + 4 * UInt(BodyStringCnt)
    /\ UInt(BodyStringOffset) - 8 <= Len(Body)
    /\ t.data = Drop(Body, UInt(BodyStringOffset) - 8)
    /\ t.stringOffsets = SubSeq(Body, 21, 20 + 4 * UInt(BodyStringCnt))
    /\ t.offsetsLen = 4 * UInt(BodyStringCnt)

\* a body with bytes between the offset table and a non-empty data region
C8_Witness ==
  /\ phase = "ok"
  /\ UInt(BodyStringOffset) - 8 > 20 + 4 * UInt(BodyStringCnt)
  /\ NumOffsets(t) > 0
  /\ Len(t.data) > 0
  /\ SubSeq(Body, 21 + 4 * UInt(BodyStringCnt), 24 + 4 * UInt(BodyStringCnt))
       = <<238, 238, 238, 238>>

C10_Len8 ==
  /\ (phase = "codec" /\ lenOut # NoLen) =>
       IF lenIn[1] < 128
       THEN lenOut = [ok |-> TRUE, len |-> lenIn[1], rest |-> Drop(lenIn, 1)]
       ELSE IF Len(lenIn) >= 2
       THEN lenOut = [ok |-> TRUE, len |-> (lenIn[1] - 128) * 256 + lenIn[2],
                      rest |-> Drop(lenIn, 2)]
       ELSE ~lenOut.ok
  /\ (last.op = "get" /\ InTable(last.idx) /\ EntryOffset(last.idx) = U(0)) =>
       last.err = ErrNone /\ last.str = Fill(200, 97)
  /\ (last.op = "get" /\ InTable(last.idx) /\ EntryOffset(last.idx) = U(205)) =>
       last.err = ErrNone /\ last.str = <<65>>

\* get has returned the 200 bytes, and then the single character
C10_Witness ==
  /\ phase = "ok"
  /\ last.op = "get"
  /\ last.str = <<65>>
  /\ \E i \in DOMAIN t.cache : Len(t.cache[i]) = 200 /\ SubSeq(t.data, 1, 4) = <<128, 200, 128, 200>>

=============================================================================
